---- MODULE Spec2Model ----
(***************************************************************************)
(* Wafer test-data extraction (src/extract_data.py).                       *)
(*                                                                         *)
(* The DataFrame is a rectangular grid of cells.  A cell is either a text  *)
(* (a Python str, kept as a TLA+ string and inspected character by         *)
(* character) or the missing value NaN that pandas stores for an absent    *)
(* field.  The pipeline is main(): analyze_data_structure scans the grid   *)
(* for the five identifiers, extract_wafer_data walks the WAFER ID rows    *)
(* and builds one record per block in four attempts (SLOT, MEAN, 3 SIGMA,  *)
(* Site), save_results_to_excel receives the records.                      *)
(***************************************************************************)
EXTENDS Integers, Sequences, FiniteSets, TLC

\* ------------------------------------------------------------------ bounds
\* Largest number of rows of an input grid.
MaxRows == 4
\* Number of columns of the grid (short rows are padded with NaN).
NCols == 10

\* ------------------------------------------------------------------ values
\* A Python str.
Str(t) == [kind |-> "str", text |-> t]
\* float('nan'): also the missing cell of a DataFrame.
NaN == [kind |-> "float", text |-> "nan"]
\* float('inf') and float('-inf').
Inf == [kind |-> "float", text |-> "inf", num |-> 1, den |-> 1]
NegInf == [kind |-> "float", text |-> "inf", num |-> -1, den |-> 1]
\* Python None.
None == [kind |-> "None", text |-> ""]
\* The ValueError raised by float() on a text that is no number.
ValueError == [kind |-> "ValueError", text |-> ""]

Abs(n) == IF n < 0 THEN -n ELSE n

RECURSIVE Gcd(_, _)
Gcd(a, b) == IF b = 0 THEN a ELSE Gcd(b, a % b)

\* A finite float, kept exactly as the reduced fraction n/d (d > 0).
Fin(n, d) ==
    LET g == Gcd(Abs(n), Abs(d))
        s == IF d < 0 THEN -1 ELSE 1
    IN  [kind |-> "float", text |-> "fin", num |-> (s * n) \div g, den |-> (s * d) \div g]

IsNumber(v) == v.kind = "float"
IsFinite(v) == v.kind = "float" /\ v.text = "fin"
IsNaN(v) == v.kind = "float" /\ v.text = "nan"
IsInf(v) == v.kind = "float" /\ v.text = "inf"

\* x == 0 on floats (nan == 0 and inf == 0 are False).
IsZero(v) == IsFinite(v) /\ v.num = 0

Sign(n) == IF n < 0 THEN -1 ELSE 1

\* a / b on Python floats, b # 0 (the caller guards the zero divisor).
FloatDiv(a, b) ==
    IF IsNaN(a) \/ IsNaN(b) THEN NaN
    ELSE IF IsInf(a) /\ IsInf(b) THEN NaN
    ELSE IF IsInf(a) THEN (IF a.num * Sign(b.num) < 0 THEN NegInf ELSE Inf)
    ELSE IF IsInf(b) THEN Fin(0, 1)
    ELSE Fin(a.num * b.den, a.den * b.num)

\* ------------------------------------------------------------------ texts
Ch(s, k) == SubSeq(s, k, k)

LowerCase == "abcdefghijklmnopqrstuvwxyz"
UpperCase == "ABCDEFGHIJKLMNOPQRSTUVWXYZ"
Digits == "0123456789"

\* Index of the one-character text c in alphabet, 0 when absent.
IndexIn(alphabet, c) ==
    IF \E k \in 1..Len(alphabet) : Ch(alphabet, k) = c
    THEN CHOOSE k \in 1..Len(alphabet) : Ch(alphabet, k) = c
    ELSE 0

UpperChar(c) ==
    LET k == IndexIn(LowerCase, c) IN IF k = 0 THEN c ELSE Ch(UpperCase, k)

\* str.upper()
RECURSIVE Upper(_)
Upper(s) == IF Len(s) = 0 THEN "" ELSE UpperChar(Ch(s, 1)) \o Upper(SubSeq(s, 2, Len(s)))

\* `m in s` on Python strings.
Contains(s, m) ==
    \E k \in 1..(Len(s) - Len(m) + 1) : SubSeq(s, k, k + Len(m) - 1) = m

IsSpace(c) == c = " "

\* str.strip()
RECURSIVE Strip(_)
Strip(s) ==
    IF Len(s) = 0 THEN s
    ELSE IF IsSpace(Ch(s, 1)) THEN Strip(SubSeq(s, 2, Len(s)))
    ELSE IF IsSpace(Ch(s, Len(s))) THEN Strip(SubSeq(s, 1, Len(s) - 1))
    ELSE s

IsDigits(s) == \A k \in 1..Len(s) : IndexIn(Digits, Ch(s, k)) # 0

\* The value of a run of decimal digits.
RECURSIVE DigitsValue(_)
DigitsValue(s) ==
    IF Len(s) = 0 THEN 0
    ELSE 10 * DigitsValue(SubSeq(s, 1, Len(s) - 1)) + (IndexIn(Digits, Ch(s, Len(s))) - 1)

RECURSIVE Pow10(_)
Pow10(k) == IF k = 0 THEN 1 ELSE 10 * Pow10(k - 1)

\* Position of the first "." of s, 0 when there is none.
DotAt(s) ==
    IF \E k \in 1..Len(s) : Ch(s, k) = "."
    THEN CHOOSE k \in 1..Len(s) : Ch(s, k) = "." /\ \A j \in 1..(k - 1) : Ch(s, j) # "."
    ELSE 0

\* float() of an unsigned text: digits with an optional fraction, "nan", "inf".
ParseUnsigned(s) ==
    LET u == Upper(s)
        dot == DotAt(s)
        ip == IF dot = 0 THEN s ELSE SubSeq(s, 1, dot - 1)
        fp == IF dot = 0 THEN "" ELSE SubSeq(s, dot + 1, Len(s))
    IN  IF u = "NAN" THEN NaN
        ELSE IF u = "INF" \/ u = "INFINITY" THEN Inf
        ELSE IF Len(ip) + Len(fp) > 0 /\ IsDigits(ip) /\ IsDigits(fp)
             THEN Fin(DigitsValue(ip) * Pow10(Len(fp)) + DigitsValue(fp), Pow10(Len(fp)))
        ELSE ValueError

\* float(text): surrounding blanks dropped, an optional sign, then the number;
\* ValueError for anything else.  (Exponents and digit separators are outside
\* the texts of the model.)
ParseFloat(t) ==
    LET s == Strip(t)
        signed == Len(s) > 0 /\ (Ch(s, 1) = "-" \/ Ch(s, 1) = "+")
        body == IF signed THEN SubSeq(s, 2, Len(s)) ELSE s
        v == ParseUnsigned(body)
    IN  IF signed /\ Ch(s, 1) = "-" /\ (IsFinite(v) \/ IsInf(v))
        THEN [v EXCEPT !.num = -v.num]
        ELSE v

\* ------------------------------------------------------------------ cells
\* str(cell): the text itself, "nan" for the missing value.
StrOf(cell) == cell.text

\* pd.notna(cell)
NotNa(cell) == ~IsNaN(cell)

\* ------------------------------------------------------------------ inputs
\* A row of the DataFrame: the fields of the line, padded with NaN to the
\* width of the frame.
Row(cells) == [c \in 1..NCols |-> IF c <= Len(cells) THEN Str(cells[c]) ELSE NaN]

\* The same, with the field at 0-based column `col` missing.
RowMissing(cells, col) == [Row(cells) EXCEPT ![col + 1] = NaN]

WaferRow == Row(<<"Wafer ID", "W01">>)
\* Two cells of one row contain the marker.
WaferTwice == Row(<<"WAFER ID", "wafer id 2">>)
SlotA == Row(<<"Slot", "LOT42">>)
SlotB == Row(<<"SLOT 2", "LOT7">>)
\* A SLOT line with three fields.
SlotWide == Row(<<"SLOT", "LOT9", "x">>)
\* SLOT in the second field only.
SlotRight == Row(<<"ID", "SLOT 5">>)

\* A header line naming N1@633 in column 1 and T1 in column 3.
HeaderRow == Row(<<"Stat", "N1@633", "um", "T1", "pct">>)
MeanGood == Row(<<"Mean", "5", "3", "7", "2">>)
\* The N1 field of the MEAN line is no number.
MeanBadN1 == Row(<<"MEAN", "5", "n/a", "7", "2">>)
MeanZero == Row(<<"MEAN", "5", "3", "7", "0.0">>)
\* The T1 field of the MEAN line is missing.
MeanNoT1 == RowMissing(<<"MEAN", "5", "3", "7", "", "x">>, 4)
Sigma == Row(<<"3 Sigma", "1", "1", "1", "1">>)
\* The other spelling of the marker.
SigmaTight == Row(<<"3SIGMA", "1", "1", "1", "3">>)

SiteRow == Row(<<"Site #", "a", "N1@633", "c", "d", "X", "Y", "h", "i", "j">>)
SiteZero == Row(<<"1", "a", "7", "c", "d", "0", "0", "h", "i", "j">>)
SiteZeroB == Row(<<"2", "a", "8", "c", "d", "0.0", "-0", "h", "i", "j">>)
\* X = 0 and Y = 0 on a line of nine fields.
SiteZeroShort == Row(<<"3", "a", "9", "c", "d", "0", "0", "h", "i">>)
\* X is no number, Y is not zero.
SiteOther == Row(<<"4", "a", "6", "c", "d", "n/a", "1", "h", "i", "j">>)

SlotFamily == {WaferRow, WaferTwice, SlotA, SlotB, SlotWide, SlotRight}
MeanFamily == {WaferRow, MeanGood, MeanBadN1, MeanZero, MeanNoT1, Sigma}
HeaderFamily == {WaferRow, HeaderRow, MeanGood, Sigma, SigmaTight}
SiteFamily == {WaferRow, SiteRow, SiteZero, SiteZeroB, SiteZeroShort, SiteOther}

\* All grids of 1..MaxRows rows over the lines of one family.
GridsOver(family) == UNION {[1..n -> family] : n \in 1..MaxRows}

\* Lines for a pair of runs: a block with and without a fault.
PairFamily == {WaferRow, SlotA, MeanGood, MeanBadN1}

Grids == GridsOver(SlotFamily) \cup GridsOver(MeanFamily)
            \cup GridsOver(HeaderFamily) \cup GridsOver(SiteFamily)

\* Every text that occurs in a grid, and the text form of the missing value.
Texts ==
    {"nan"} \cup {row[c].text : row \in SlotFamily \cup MeanFamily \cup HeaderFamily
                                        \cup SiteFamily \cup PairFamily,
                               c \in 1..NCols}

\* str(cell).upper(), float(cell) and the emptiness test, per text.
UpperText == [t \in Texts |-> Upper(t)]
FloatText == [t \in Texts |-> ParseFloat(t)]
BlankText == [t \in Texts |-> Strip(t) = ""]

\* str(cell).upper()
UpperOf(cell) == UpperText[StrOf(cell)]
\* float(cell): a float stays itself, a text is parsed.
FloatOf(cell) == IF cell.kind = "float" THEN cell ELSE FloatText[cell.text]
\* `pd.notna(col) and str(col).strip() != ''`
IsNonEmpty(cell) == NotNa(cell) /\ ~BlankText[StrOf(cell)]

\* ------------------------------------------------------------------ frame
\* len(df)
NRows(g) == Len(g)
\* df.iloc[r, c], 0-based.
Cell(g, r, c) == g[r + 1][c + 1]

\* ------------------------------------------------------------------ state
VARIABLES
    df,                     \* the DataFrame read from the CSV file
    pc,                     \* position of main()
    identifier_positions,   \* identifier -> list of (row, col), found identifiers only
    wafer_id_rows,          \* rows of the WAFER ID positions
    results,                \* list of the records built so far
    i,                      \* index of the block being processed (0-based)
    wafer_start,            \* first row of the current block
    wafer_end,              \* row after the last row of the current block
    sections,               \* '2_col' / '5_col' / '14_col' rows of the current block
    result,                 \* record of the current block
    ranges,                 \* the (wafer_start, wafer_end) pairs reported so far
    attempts,               \* extraction attempts made for the current block
    excel,                  \* what save_results_to_excel received
    prev_df,                \* the DataFrame of the previous run of main(), if any
    prev_results            \* the records of the previous run

vars == <<df, pc, identifier_positions, wafer_id_rows, results, i, wafer_start,
          wafer_end, sections, result, ranges, attempts, excel, prev_df, prev_results>>

\* ------------------------------------------------------------------ scan
key_identifiers == <<"WAFER ID", "SLOT", "MEAN", "3 SIGMA", "Site #">>

\* `identifier.upper() in cell_value.upper()`, per text and identifier.
MatchText ==
    [t \in Texts |-> {n \in 1..Len(key_identifiers) :
                        Contains(Upper(t), Upper(key_identifiers[n]))}]

\* (A variant that compares without upper-casing.)
CellMatchesExactCase(cell, n) == Contains(StrOf(cell), key_identifiers[n])

CellMatches(cell, n) == n \in MatchText[StrOf(cell)]

\* The double loop over rows and columns, from the k-th cell in row-major order on.
\* (n is the index of the identifier in key_identifiers.)
RECURSIVE ScanFrom(_, _, _)
ScanFrom(g, n, k) ==
    IF k >= NRows(g) * NCols THEN <<>>
    ELSE LET row_idx == k \div NCols
             col_idx == k % NCols
         IN  (IF CellMatches(Cell(g, row_idx, col_idx), n)
              THEN <<<<row_idx, col_idx>>>> ELSE <<>>)
             \o ScanFrom(g, n, k + 1)

positions(g, n) == ScanFrom(g, n, 0)

\* The dictionary holds an identifier only when it was found.
ScanIdentifiers(g) ==
    LET all == [n \in 1..Len(key_identifiers) |-> positions(g, n)]
        found == {n \in 1..Len(key_identifiers) : all[n] # <<>>}
    IN  [id \in {key_identifiers[n] : n \in found} |->
            all[CHOOSE n \in found : key_identifiers[n] = id]]

\* (A variant that takes row 0 when the key is missing.)
WaferIdRowsDefaultFirst(ip) ==
    IF "WAFER ID" \in DOMAIN ip
    THEN [n \in 1..Len(ip["WAFER ID"]) |-> ip["WAFER ID"][n][1]]
    ELSE <<0>>

\* (A variant that keeps one entry per row.)
RECURSIVE Dedup(_)
Dedup(rows) ==
    IF Len(rows) <= 1 THEN rows
    ELSE IF rows[1] = rows[2] THEN Dedup(Tail(rows))
    ELSE <<rows[1]>> \o Dedup(Tail(rows))

WaferIdRowsOnePerRow(ip) ==
    IF "WAFER ID" \in DOMAIN ip
    THEN Dedup([n \in 1..Len(ip["WAFER ID"]) |-> ip["WAFER ID"][n][1]])
    ELSE <<>>

\* `[pos[0] for pos in identifier_positions['WAFER ID']]`, [] without the key.
WaferIdRows(ip) ==
    IF "WAFER ID" \in DOMAIN ip
    THEN [n \in 1..Len(ip["WAFER ID"]) |-> ip["WAFER ID"][n][1]]
    ELSE <<>>

\* ------------------------------------------------------------------ block
\* Number of non-empty cells of a row.
actual_cols(g, row_idx) ==
    Cardinality({c \in 0..(NCols - 1) : IsNonEmpty(Cell(g, row_idx, c))})

\* (A variant that takes three cells for a '2_col' row too.)
SectionOfLoose(col_count) ==
    IF col_count = 2 \/ col_count = 3 THEN "2_col"
    ELSE IF col_count >= 4 /\ col_count <= 6 THEN "5_col"
    ELSE IF col_count >= 10 THEN "14_col"
    ELSE "none"

\* (A variant whose '14_col' section begins at nine cells.)
SectionOfNine(col_count) ==
    IF col_count = 2 THEN "2_col"
    ELSE IF col_count >= 4 /\ col_count <= 6 THEN "5_col"
    ELSE IF col_count >= 9 THEN "14_col"
    ELSE "none"

\* The section a row of col_count non-empty cells falls in.
SectionOf(col_count) ==
    IF col_count = 2 THEN "2_col"
    ELSE IF col_count >= 4 /\ col_count <= 6 THEN "5_col"
    ELSE IF col_count >= 10 THEN "14_col"
    ELSE "none"

\* The rows lo..hi-1 of the frame that fall in section k, ascending.
RECURSIVE SectionRows(_, _, _, _)
SectionRows(g, lo, hi, k) ==
    IF lo >= hi THEN <<>>
    ELSE (IF lo < NRows(g) /\ SectionOf(actual_cols(g, lo)) = k THEN <<lo>> ELSE <<>>)
         \o SectionRows(g, lo + 1, hi, k)

analyze_wafer_structure(g, start, end) ==
    [k \in {"2_col", "5_col", "14_col"} |-> SectionRows(g, start, end, k)]

EmptyResult ==
    [lot_id |-> None, N1_mean |-> None, T1_mean |-> None,
     T1_3sigma_mean |-> None, N1_XY_00 |-> None]

\* (A variant that carries lot_id over from the previous record.)
FreshResultKeepsLot(prev) == [EmptyResult EXCEPT !.lot_id = prev.lot_id]

\* The record every turn of the loop starts from.
FreshResult(prev) == EmptyResult

NoSections == [k \in {"2_col", "5_col", "14_col"} |-> <<>>]

\* First element of rows that satisfies P, -1 when there is none
\* (a `for ... : if P: ...; break` loop).
FirstRow(rows, P(_)) ==
    IF \E n \in 1..Len(rows) : P(rows[n])
    THEN rows[CHOOSE n \in 1..Len(rows) : P(rows[n]) /\ \A m \in 1..(n - 1) : ~P(rows[m])]
    ELSE -1

\* Column 0 of the row is present and its text contains the label.
LabelRow(g, row_idx, label) ==
    /\ row_idx < NRows(g)
    /\ NotNa(Cell(g, row_idx, 0))
    /\ Contains(UpperOf(Cell(g, row_idx, 0)), label)

n1_col == 2
t1_col == 4
x_col == 5
y_col == 6

\* The state main() starts from once read_csv_data has returned the frame g.
Loaded(g) ==
    /\ df = g
    /\ pc = "start"
    /\ identifier_positions = <<>>
    /\ wafer_id_rows = <<>>
    /\ results = <<>>
    /\ i = 0
    /\ wafer_start = 0
    /\ wafer_end = 0
    /\ sections = NoSections
    /\ result = EmptyResult
    /\ ranges = <<>>
    /\ attempts = <<>>
    /\ excel = <<>>

Init ==
    /\ \E g \in Grids : Loaded(g)
    /\ prev_df = <<>>
    /\ prev_results = <<>>

\* analyze_data_structure(df), called by main().
AnalyzeDataStructure ==
    /\ pc = "start"
    /\ identifier_positions' = ScanIdentifiers(df)
    /\ wafer_id_rows' = WaferIdRows(identifier_positions')
    /\ pc' = "analyzed"
    /\ UNCHANGED <<prev_df, prev_results>>
    /\ UNCHANGED <<df, results, i, wafer_start, wafer_end, sections, result, ranges,
                   attempts, excel>>

\* main(): `if not wafer_id_rows: return`.
MainStop ==
    /\ pc = "analyzed"
    /\ wafer_id_rows = <<>>
    /\ pc' = "stopped"
    /\ UNCHANGED <<prev_df, prev_results>>
    /\ UNCHANGED <<df, identifier_positions, wafer_id_rows, results, i, wafer_start,
                   wafer_end, sections, result, ranges, attempts, excel>>

\* Entry of extract_wafer_data(df, identifier_positions): called by main() when
\* a WAFER ID row was found, or by a caller of the function itself, which then
\* gets the empty list back (main()'s own `else` branch after the call cannot be
\* reached: main() returns before the call when there is no WAFER ID row).
ExtractEntry ==
    /\ pc = "analyzed"
    /\ results' = <<>>
    /\ wafer_id_rows' = WaferIdRows(identifier_positions)
    /\ i' = 0
    /\ pc' = IF wafer_id_rows' = <<>> THEN "returned" ELSE "block"
    /\ UNCHANGED <<prev_df, prev_results>>
    /\ UNCHANGED <<df, identifier_positions, wafer_start, wafer_end, sections, result,
                   ranges, attempts, excel>>

\* The row after the block of the rows[idx]: the next WAFER ID row, or len(df).
WaferEndAlwaysLast(rows, idx, g) == NRows(g)

WaferEnd(rows, idx, g) ==
    IF idx + 1 < Len(rows) THEN rows[idx + 2] ELSE NRows(g)

\* Head of the loop body: the row range, the sections, the fresh record.
BeginBlock ==
    /\ pc = "block"
    /\ wafer_start' = wafer_id_rows[i + 1]
    /\ wafer_end' = WaferEnd(wafer_id_rows, i, df)
    /\ ranges' = Append(ranges, <<wafer_start', wafer_end'>>)
    /\ sections' = analyze_wafer_structure(df, wafer_start', wafer_end')
    /\ result' = FreshResult(result)
    /\ attempts' = <<>>
    /\ pc' = "slot"
    /\ UNCHANGED <<prev_df, prev_results>>
    /\ UNCHANGED <<df, identifier_positions, wafer_id_rows, results, i, excel>>

\* 1. SLOT: the first '2_col' row whose column 0 contains SLOT gives lot_id
\* from its column 1.  Nothing in the attempt can raise.
SlotRow(g, sec) ==
    LET ok(r) == LabelRow(g, r, "SLOT") /\ r < NRows(g) /\ NCols > 1
    IN  FirstRow(sec["2_col"], ok)

SlotValue(g, sec, res) ==
    LET r == SlotRow(g, sec)
    IN  IF r = -1 THEN res ELSE [res EXCEPT !.lot_id = Cell(g, r, 1)]

SlotStep ==
    /\ pc = "slot"
    /\ attempts' = Append(attempts, "SLOT")
    /\ result' = SlotValue(df, sections, result)
    /\ pc' = "mean"
    /\ UNCHANGED <<prev_df, prev_results>>
    /\ UNCHANGED <<df, identifier_positions, wafer_id_rows, results, i, wafer_start,
                   wafer_end, sections, ranges, excel>>

\* 2. MEAN: the first '5_col' row whose column 0 contains MEAN.
MeanRow(g, sec) ==
    LET ok(r) == LabelRow(g, r, "MEAN")
    IN  FirstRow(sec["5_col"], ok)

\* The two float() calls on the MEAN row, in order.  `raised` tells that one of
\* them raised ValueError: the assignments made before it stay, and the handler
\* of the surrounding try ends the attempt.
MeanValue(g, sec, res) ==
    LET r == MeanRow(g, sec)
        n1 == FloatOf(Cell(g, r, n1_col))
        t1 == FloatOf(Cell(g, r, t1_col))
        r1 == IF n1_col < NCols THEN [res EXCEPT !.N1_mean = n1] ELSE res
        r2 == IF t1_col < NCols THEN [r1 EXCEPT !.T1_mean = t1] ELSE r1
    IN  IF r = -1 THEN [raised |-> FALSE, res |-> res]
        ELSE IF n1_col < NCols /\ n1 = ValueError THEN [raised |-> TRUE, res |-> res]
        ELSE IF t1_col < NCols /\ t1 = ValueError THEN [raised |-> TRUE, res |-> r1]
        ELSE [raised |-> FALSE, res |-> r2]

\* (A variant of the MEAN step whose exception ends the work on the block: the
\* Site attempt is left out.)
MeanStepSkipsSite ==
    /\ pc = "mean"
    /\ attempts' = Append(attempts, "MEAN")
    /\ LET m == MeanValue(df, sections, result)
       IN  /\ result' = m.res
           /\ pc' = IF m.raised THEN "append" ELSE "sigma"
    /\ UNCHANGED <<prev_df, prev_results>>
    /\ UNCHANGED <<df, identifier_positions, wafer_id_rows, results, i, wafer_start,
                   wafer_end, sections, ranges, excel>>

\* The 3 SIGMA part is in the same try as the MEAN part: an exception of the
\* MEAN part skips it.
MeanStep ==
    /\ pc = "mean"
    /\ attempts' = Append(attempts, "MEAN")
    /\ LET m == MeanValue(df, sections, result)
       IN  /\ result' = m.res
           /\ pc' = IF m.raised THEN "site" ELSE "sigma"
    /\ UNCHANGED <<prev_df, prev_results>>
    /\ UNCHANGED <<df, identifier_positions, wafer_id_rows, results, i, wafer_start,
                   wafer_end, sections, ranges, excel>>

\* `result['T1_mean'] is not None and result['T1_mean'] != 0`
SigmaGuard(res) == res.T1_mean # None /\ ~IsZero(res.T1_mean)

SigmaRow(g, sec) ==
    LET ok(r) == LabelRow(g, r, "3 SIGMA")
    IN  FirstRow(sec["5_col"], ok)

\* 3. 3 SIGMA: the ratio of the T1 cell of the first 3 SIGMA row to T1_mean; a
\* ValueError of float() leaves the field as it is.
SigmaValue(g, sec, res) ==
    LET r == SigmaRow(g, sec)
        t1_3sigma == FloatOf(Cell(g, r, t1_col))
    IN  IF r = -1 \/ ~(t1_col < NCols) \/ t1_3sigma = ValueError THEN res
        ELSE [res EXCEPT !.T1_3sigma_mean = FloatDiv(t1_3sigma, res.T1_mean)]

SigmaStep ==
    /\ pc = "sigma"
    /\ IF SigmaGuard(result)
       THEN /\ attempts' = Append(attempts, "3 SIGMA")
            /\ result' = SigmaValue(df, sections, result)
       ELSE UNCHANGED <<attempts, result>>
    /\ pc' = "site"
    /\ UNCHANGED <<prev_df, prev_results>>
    /\ UNCHANGED <<df, identifier_positions, wafer_id_rows, results, i, wafer_start,
                   wafer_end, sections, ranges, excel>>

\* 4. Site: the first '14_col' row whose column 0 contains SITE.
SiteHeaderRow(g, sec) ==
    LET ok(r) == LabelRow(g, r, "SITE")
    IN  FirstRow(sec["14_col"], ok)

\* `pd.notna(x_val) and pd.notna(y_val) and float(x_val) == 0 and float(y_val) == 0`;
\* a ValueError of float() is caught and the row skipped.
XYZero(g, r) ==
    LET x_val == IF x_col < NCols THEN Cell(g, r, x_col) ELSE NaN
        y_val == IF y_col < NCols THEN Cell(g, r, y_col) ELSE NaN
    IN  NotNa(x_val) /\ NotNa(y_val) /\ IsZero(FloatOf(x_val)) /\ IsZero(FloatOf(y_val))

\* (A variant without the break: the last such row is taken.)
SiteDataRowLast(g, sec, site_header_row) ==
    LET rows == sec["14_col"]
        ok(r) == r > site_header_row /\ r < NRows(g) /\ XYZero(g, r) /\ n1_col < NCols
    IN  IF \E n \in 1..Len(rows) : ok(rows[n])
        THEN rows[CHOOSE n \in 1..Len(rows) : ok(rows[n]) /\ \A m \in (n + 1)..Len(rows) : ~ok(rows[m])]
        ELSE -1

\* The first '14_col' row after the Site row with X = 0 and Y = 0.
SiteDataRow(g, sec, site_header_row) ==
    LET ok(r) == r > site_header_row /\ r < NRows(g) /\ XYZero(g, r) /\ n1_col < NCols
    IN  FirstRow(sec["14_col"], ok)

SiteValue(g, sec, res) ==
    LET site_header_row == SiteHeaderRow(g, sec)
        r == SiteDataRow(g, sec, site_header_row)
    IN  IF site_header_row = -1 \/ r = -1 THEN res
        ELSE [res EXCEPT !.N1_XY_00 = Cell(g, r, n1_col)]

SiteStep ==
    /\ pc = "site"
    /\ attempts' = Append(attempts, "Site")
    /\ result' = SiteValue(df, sections, result)
    /\ pc' = "append"
    /\ UNCHANGED <<prev_df, prev_results>>
    /\ UNCHANGED <<df, identifier_positions, wafer_id_rows, results, i, wafer_start,
                   wafer_end, sections, ranges, excel>>

\* `results.append(result)` and the next turn of the loop, or `return results`.
AppendResult ==
    /\ pc = "append"
    /\ results' = Append(results, result)
    /\ i' = i + 1
    /\ pc' = IF i + 1 < Len(wafer_id_rows) THEN "block" ELSE "returned"
    /\ UNCHANGED <<prev_df, prev_results>>
    /\ UNCHANGED <<df, identifier_positions, wafer_id_rows, wafer_start, wafer_end,
                   sections, result, ranges, attempts, excel>>

\* main(): `if results: save_results_to_excel(results, output_file)`.
MainSave ==
    /\ pc = "returned"
    /\ results # <<>>
    /\ excel' = results
    /\ pc' = "saved"
    /\ UNCHANGED <<prev_df, prev_results>>
    /\ UNCHANGED <<df, identifier_positions, wafer_id_rows, results, i, wafer_start,
                   wafer_end, sections, result, ranges, attempts>>

Next ==
    \/ AnalyzeDataStructure
    \/ MainStop
    \/ ExtractEntry
    \/ BeginBlock
    \/ SlotStep
    \/ MeanStep
    \/ SigmaStep
    \/ SiteStep
    \/ AppendResult
    \/ MainSave

Spec == Init /\ [][Next]_vars

\* ------------------------------------------------------------------ two runs
\* A row that holds a WAFER ID cell.
IsWaferRow(row) == \E c \in 1..NCols : CellMatches(row[c], 1)

InitPair ==
    /\ \E g \in GridsOver(PairFamily) : Loaded(g)
    /\ prev_df = <<>>
    /\ prev_results = <<>>

\* main() has ended and is run again on a file that differs from the first in
\* one line, neither of the two lines holding a WAFER ID cell.
Rerun ==
    /\ pc \in {"saved", "stopped"}
    /\ prev_df = <<>>
    /\ \E r \in 1..Len(df), row \in PairFamily :
          /\ row # df[r]
          /\ ~IsWaferRow(row)
          /\ ~IsWaferRow(df[r])
          /\ df' = [df EXCEPT ![r] = row]
    /\ prev_df' = df
    /\ prev_results' = excel
    /\ pc' = "start"
    /\ identifier_positions' = <<>>
    /\ wafer_id_rows' = <<>>
    /\ results' = <<>>
    /\ i' = 0
    /\ wafer_start' = 0
    /\ wafer_end' = 0
    /\ sections' = NoSections
    /\ result' = EmptyResult
    /\ ranges' = <<>>
    /\ attempts' = <<>>
    /\ excel' = <<>>

NextPair == Next \/ Rerun

SpecPair == InitPair /\ [][NextPair]_vars

\* ------------------------------------------------------------------ headers
\* Row-major order of positions.
Before(p, q) == p[1] < q[1] \/ (p[1] = q[1] /\ p[2] < q[2])

\* The role find_column_headers gives a header cell, "" for none (the if / elif
\* chain on the upper-cased text).
HeaderRole(cell) ==
    LET cell_str == UpperOf(cell)
    IN  IF Contains(cell_str, "N1") /\ Contains(cell_str, "633") THEN "N1_633"
        ELSE IF Contains(cell_str, "T1") /\ ~Contains(cell_str, "N1") THEN "T1"
        ELSE IF cell_str = "X" THEN "X"
        ELSE IF cell_str = "Y" THEN "Y"
        ELSE ""

\* find_column_headers(df, start_row, end_row): role -> column; a later cell of
\* the same role overwrites an earlier one.  (No caller in the file.)
find_column_headers(g, start_row, end_row) ==
    LET last == IF end_row < NRows(g) THEN end_row ELSE NRows(g)
        cells(role) == {p \in (start_row..(last - 1)) \X (0..(NCols - 1)) :
                           HeaderRole(Cell(g, p[1], p[2])) = role}
        roles == {role \in {"N1_633", "T1", "X", "Y"} : cells(role) # {}}
    IN  [role \in roles |->
            (CHOOSE p \in cells(role) : \A q \in cells(role) : q = p \/ Before(q, p))[2]]

\* ------------------------------------------------------------------ whole block
\* The body of the loop of extract_wafer_data as one function of the frame and
\* the row range: the four attempts in order.
BlockRecord(g, start, end) ==
    LET sec == analyze_wafer_structure(g, start, end)
        r1 == SlotValue(g, sec, EmptyResult)
        m == MeanValue(g, sec, r1)
        r3 == IF ~m.raised /\ SigmaGuard(m.res) THEN SigmaValue(g, sec, m.res) ELSE m.res
    IN  SiteValue(g, sec, r3)

\* ------------------------------------------------------------------ claims
\* extract_wafer_data has returned.
Returned == pc = "returned"

\* The cell positions of g whose text contains the label, whatever the case.
CellsWith(g, label) ==
    {p \in (0..(NRows(g) - 1)) \X (0..(NCols - 1)) :
        Contains(UpperOf(Cell(g, p[1], p[2])), label)}

\* The n-th position of the set S in row-major order.
Nth(S, n) == CHOOSE p \in S : Cardinality({q \in S : Before(q, p)}) = n - 1

\* The rows of the WAFER ID cells of g, in row-major order of the cells.
MarkerRows(g) ==
    LET S == CellsWith(g, "WAFER ID")
    IN  [n \in 1..Cardinality(S) |-> Nth(S, n)[1]]

\* Block n of a grid of `count` rows whose marker rows are `rows`: from the n-th
\* marker row to the next one, or to the end of the grid.
StartOf(rows, n) == rows[n]
StopOf(rows, n, count) == IF n < Len(rows) THEN rows[n + 1] ELSE count

\* Smallest element of a set of rows, -1 for the empty set.
MinRow(S) == IF S = {} THEN -1 ELSE CHOOSE r \in S : \A q \in S : r <= q

\* The rows lo..hi-1 of g whose column-0 text contains the label.
LabelledRows(g, lo, hi, label) ==
    {r \in lo..(hi - 1) : Contains(UpperOf(Cell(g, r, 0)), label)}

\* The cell holds a number equal to zero.
ZeroCell(cell) == NotNa(cell) /\ IsZero(FloatOf(cell))

\* A value that is a number (not an error, not None, not NaN).
Resolved(v) == IsNumber(v) /\ ~IsNaN(v)

\* Number of non-empty cells of row r.
FilledCells(g, r) == Cardinality({c \in 0..(NCols - 1) : IsNonEmpty(Cell(g, r, c))})

\* C1: when the grid has N cells containing "WAFER ID", extract_wafer_data
\* returns N records, and the n-th one is the record of the block that starts
\* at the row of the n-th such cell (two cells of one row give two records).
C1_OneRecordPerMarker ==
    Returned =>
        LET rows == MarkerRows(df)
        IN  /\ Len(results) = Cardinality(CellsWith(df, "WAFER ID"))
            /\ \A n \in 1..Len(results) :
                  results[n] = BlockRecord(df, StartOf(rows, n), StopOf(rows, n, NRows(df)))

\* Three markers, two of them on one row, and three records of which two differ.
C1_Witness ==
    /\ Returned
    /\ Len(results) = 3
    /\ \E p, q \in CellsWith(df, "WAFER ID") : p # q /\ p[1] = q[1]
    /\ \E n, m \in 1..Len(results) : results[n] # results[m]

\* C2: the row ranges processed are [row_n, row_n+1) for consecutive WAFER ID
\* rows, the last one ending at the row count; they are contiguous, ordered by
\* start, pairwise disjoint, and together cover exactly the rows from the first
\* WAFER ID row to the end of the grid.  (ranges changes only when a block is
\* entered: it is looked at there and at the return.)
C2_BlocksPartition ==
    (pc = "slot" \/ Returned) =>
        LET rows == MarkerRows(df)
        IN  /\ \A n \in 1..Len(ranges) :
                  /\ ranges[n] = <<StartOf(rows, n), StopOf(rows, n, NRows(df))>>
                  /\ ranges[n][1] <= ranges[n][2]
            /\ \A n \in 1..(Len(ranges) - 1) :
                  /\ ranges[n][2] = ranges[n + 1][1]
                  /\ ranges[n][1] <= ranges[n + 1][1]
            /\ \A n, m \in 1..Len(ranges) :
                  n # m => (ranges[n][1]..(ranges[n][2] - 1))
                              \cap (ranges[m][1]..(ranges[m][2] - 1)) = {}
            /\ (Returned /\ rows # <<>>) =>
                  /\ Len(ranges) = Len(rows)
                  /\ UNION {ranges[n][1]..(ranges[n][2] - 1) : n \in 1..Len(ranges)}
                        = rows[1]..(NRows(df) - 1)

\* Markers at rows 0 and 2 of a 4-row grid: the ranges are [0,2) and [2,4).
C2_Witness ==
    /\ Returned
    /\ NRows(df) = 4
    /\ ranges = <<<<0, 2>>, <<2, 4>>>>

\* C3: T1_3sigma_mean is (T1 of the first 3 SIGMA row) / (T1 of the first MEAN
\* row) exactly when both are numbers and the mean is not zero, null in every
\* other case, and never inf or NaN.  (The statement of the claim; the code
\* does not satisfy it.)
C3_RatioExactlyWhenResolved ==
    Returned =>
        LET rows == MarkerRows(df)
        IN  \A n \in 1..Len(results) :
            LET lo == StartOf(rows, n)
                hi == StopOf(rows, n, NRows(df))
                m == MinRow(LabelledRows(df, lo, hi, "MEAN"))
                sg == MinRow(LabelledRows(df, lo, hi, "3 SIGMA"))
                mv == IF m = -1 THEN None ELSE FloatOf(Cell(df, m, t1_col))
                sv == IF sg = -1 THEN None ELSE FloatOf(Cell(df, sg, t1_col))
            IN  /\ results[n].T1_3sigma_mean =
                      IF Resolved(mv) /\ Resolved(sv) /\ ~IsZero(mv)
                      THEN FloatDiv(sv, mv) ELSE None
                /\ ~IsNaN(results[n].T1_3sigma_mean)
                /\ ~IsInf(results[n].T1_3sigma_mean)

\* C4 as claimed: lot_id is the cell to the right of the first cell of the block,
\* in scan order, whose text contains SLOT; null when the block has none.
C4_LotIdRightOfFirstSlotCell ==
    Returned =>
        LET rows == MarkerRows(df)
        IN  \A n \in 1..Len(results) :
            LET S == {p \in CellsWith(df, "SLOT") :
                         StartOf(rows, n) <= p[1] /\ p[1] < StopOf(rows, n, NRows(df))}
                p == Nth(S, 1)
            IN  results[n].lot_id =
                    IF S = {} \/ p[2] + 1 >= NCols THEN None
                    ELSE Cell(df, p[1], p[2] + 1)

\* The rows lo..hi-1 with exactly two non-empty cells whose column 0 contains SLOT.
TwoCellSlotRows(g, lo, hi) ==
    {r \in LabelledRows(g, lo, hi, "SLOT") : FilledCells(g, r) = 2}

\* C4, amended: lot_id is the column-1 cell of the first row of the block that has
\* exactly two non-empty cells and whose column-0 cell contains SLOT; it is null
\* when the block has no such row, whatever the previous block's lot_id was.
C4_LotIdFromTwoCellSlotRow ==
    Returned =>
        LET rows == MarkerRows(df)
        IN  \A n \in 1..Len(results) :
            LET r == MinRow(TwoCellSlotRows(df, StartOf(rows, n), StopOf(rows, n, NRows(df))))
            IN  results[n].lot_id = IF r = -1 THEN None ELSE Cell(df, r, 1)

\* Two blocks: the first has a two-cell SLOT row and a lot_id, the second has a
\* cell containing SLOT but no such row, and its lot_id is null.
C4_Witness ==
    /\ Returned
    /\ Len(results) = 2
    /\ results[1].lot_id = Str("LOT42")
    /\ TwoCellSlotRows(df, MarkerRows(df)[2], NRows(df)) = {}
    /\ \E p \in CellsWith(df, "SLOT") : p[1] >= MarkerRows(df)[2]
    /\ results[2].lot_id = None

WideSiteRow(g, lo, hi) ==
    MinRow({r \in LabelledRows(g, lo, hi, "SITE") : FilledCells(g, r) >= 10})

\* The rows after that Site row, before hi, with at least ten non-empty cells
\* and X = 0 and Y = 0.
WideZeroRows(g, lo, hi) ==
    LET site == WideSiteRow(g, lo, hi)
    IN  IF site = -1 THEN {}
        ELSE {q \in (site + 1)..(hi - 1) :
                 /\ FilledCells(g, q) >= 10
                 /\ ZeroCell(Cell(g, q, x_col))
                 /\ ZeroCell(Cell(g, q, y_col))}

C6_FailureNullsOnlyItsField ==
    Returned =>
        LET rows == MarkerRows(df)
        IN  \A n \in 1..Len(results) :
            LET lo == StartOf(rows, n)
                hi == StopOf(rows, n, NRows(df))
                m == MinRow(LabelledRows(df, lo, hi, "MEAN"))
                sg == MinRow(LabelledRows(df, lo, hi, "3 SIGMA"))
                nv == FloatOf(Cell(df, m, n1_col))
                mv == FloatOf(Cell(df, m, t1_col))
                sv == FloatOf(Cell(df, sg, t1_col))
            IN  (m # -1 /\ nv = ValueError /\ Resolved(mv)) =>
                    /\ results[n].N1_mean = None
                    /\ results[n].T1_mean = mv
                    /\ (sg # -1 /\ Resolved(sv) /\ ~IsZero(mv)) =>
                          results[n].T1_3sigma_mean = FloatDiv(sv, mv)

\* The rows lo..hi-1 hold the same cells in g and in h.
SameRows(g, h, lo, hi) == \A r \in lo..(hi - 1) : g[r + 1] = h[r + 1]

\* C7: two runs on grids with the same row count and the same WAFER ID rows give
\* the same number of records, and the same record for every block whose cells
\* are the same in both grids, whatever the other blocks hold and whatever was
\* raised while they were processed.
C7_BlockIsolation ==
    (prev_df # <<>> /\ Returned /\ NRows(df) = NRows(prev_df)) =>
        LET rows == MarkerRows(df)
        IN  rows = MarkerRows(prev_df) =>
                /\ Len(results) = Len(prev_results)
                /\ \A n \in 1..Len(results) :
                      SameRows(df, prev_df, StartOf(rows, n), StopOf(rows, n, NRows(df)))
                          => results[n] = prev_results[n]

\* Second run: the first block differs between the grids and its MEAN attempt
\* raises in this run; the second block is the same, has a lot_id, and gets the
\* record of the first run.
C7_Witness ==
    /\ prev_df # <<>>
    /\ Returned
    /\ MarkerRows(df) = MarkerRows(prev_df)
    /\ Len(results) = 2
    /\ LET rows == MarkerRows(df)
       IN  /\ ~SameRows(df, prev_df, rows[1], rows[2])
           /\ \E r \in rows[1]..(rows[2] - 1) : df[r + 1] = MeanBadN1
           /\ SameRows(df, prev_df, rows[2], NRows(df))
    /\ results[1] # prev_results[1]
    /\ results[2].lot_id # None
    /\ results[2] = prev_results[2]

\* C8: N1_mean and T1_mean are the cells of the first MEAN row at the columns
\* named by the nearest header row above it (inside the block, at most 10 rows
\* up) that has an N1@633 cell and a T1 cell; without such a header row both are
\* null.  (The statement of the claim; the code does not satisfy it.)
C8_MeansReadAtHeaderColumns ==
    Returned =>
        LET rows == MarkerRows(df)
        IN  \A n \in 1..Len(results) :
            LET lo == StartOf(rows, n)
                m == MinRow(LabelledRows(df, lo, StopOf(rows, n, NRows(df)), "MEAN"))
                H == {r \in lo..(m - 1) :
                        /\ r >= m - 10
                        /\ {"N1_633", "T1"} \subseteq DOMAIN find_column_headers(df, r, r + 1)}
                h == CHOOSE r \in H : \A q \in H : q <= r
                cols == find_column_headers(df, h, h + 1)
                n1 == FloatOf(Cell(df, m, cols["N1_633"]))
                t1 == FloatOf(Cell(df, m, cols["T1"]))
            IN  m # -1 =>
                    IF H = {}
                    THEN results[n].N1_mean = None /\ results[n].T1_mean = None
                    ELSE /\ results[n].N1_mean = IF Resolved(n1) THEN n1 ELSE None
                         /\ results[n].T1_mean = IF Resolved(t1) THEN t1 ELSE None

\* C9: on a grid without a WAFER ID cell nothing is extracted or saved: no block
\* is entered, extract_wafer_data returns the empty list, and main() stops after
\* the scan and goes no further.
C9_NoMarkerNoRecords ==
    \/ /\ pc \in {"start", "analyzed", "stopped", "returned"}
       /\ results = <<>>
       /\ ranges = <<>>
       /\ attempts = <<>>
       /\ excel = <<>>
       /\ pc = "analyzed" => ENABLED MainStop
       /\ pc \in {"stopped", "returned"} => ~ENABLED Next
    \/ CellsWith(df, "WAFER ID") # {}

\* extract_wafer_data has returned the empty list for a grid of MaxRows rows
\* that holds other markers but no WAFER ID.
C9_Witness ==
    /\ pc = "returned"
    /\ CellsWith(df, "WAFER ID") = {}
    /\ CellsWith(df, "SLOT") # {}
    /\ NRows(df) = MaxRows
    /\ results = <<>>

\* The positions recorded for an identifier, none when the key is absent.
PositionsOf(id) ==
    IF id \in DOMAIN identifier_positions THEN identifier_positions[id] ELSE <<>>

\* The sequence lists exactly the positions of S, in row-major order.
ListsInOrder(seq, S) ==
    /\ \A a, b \in 1..Len(seq) : a < b => Before(seq[a], seq[b])
    /\ {seq[a] : a \in 1..Len(seq)} = S

\* C10 as claimed: the scan records for each marker all positions whose text
\* contains it, in row-major order, and for the 3-sigma marker both spellings.
C10_ScanFindsBothSpellings ==
    pc = "analyzed" =>
        /\ ListsInOrder(PositionsOf("WAFER ID"), CellsWith(df, "WAFER ID"))
        /\ ListsInOrder(PositionsOf("SLOT"), CellsWith(df, "SLOT"))
        /\ ListsInOrder(PositionsOf("MEAN"), CellsWith(df, "MEAN"))
        /\ ListsInOrder(PositionsOf("Site #"), CellsWith(df, "SITE #"))
        /\ ListsInOrder(PositionsOf("3 SIGMA"),
                        CellsWith(df, "3 SIGMA") \cup CellsWith(df, "3SIGMA"))

\* C10, amended: the scan records for each marker all positions whose text
\* contains it, in row-major order, none missed or added; the 3-sigma marker is
\* matched in the spelling "3 SIGMA" only, a cell spelled "3SIGMA" is not
\* recorded, and a block without a "3 SIGMA" row gets no T1_3sigma_mean.  (The
\* index is written by the scan alone: it is looked at after the scan and at
\* the return.)
C10_ScanFindsSpacedSpelling ==
    /\ (pc = "analyzed" \/ Returned) =>
        /\ ListsInOrder(PositionsOf("WAFER ID"), CellsWith(df, "WAFER ID"))
        /\ ListsInOrder(PositionsOf("SLOT"), CellsWith(df, "SLOT"))
        /\ ListsInOrder(PositionsOf("MEAN"), CellsWith(df, "MEAN"))
        /\ ListsInOrder(PositionsOf("Site #"), CellsWith(df, "SITE #"))
        /\ ListsInOrder(PositionsOf("3 SIGMA"), CellsWith(df, "3 SIGMA"))
    /\ Returned =>
        LET rows == MarkerRows(df)
        IN  \A n \in 1..Len(results) :
              LabelledRows(df, StartOf(rows, n), StopOf(rows, n, NRows(df)), "3 SIGMA") = {}
                  => results[n].T1_3sigma_mean = None

\* A grid with both spellings and two WAFER ID rows: only the spaced one is listed.
C10_Witness ==
    /\ pc = "analyzed"
    /\ CellsWith(df, "3SIGMA") # {}
    /\ CellsWith(df, "3 SIGMA") # {}
    /\ Len(PositionsOf("3 SIGMA")) = Cardinality(CellsWith(df, "3 SIGMA"))
    /\ Len(PositionsOf("WAFER ID")) = 2

\* ------------------------------------------------------------------ progress
\* Lines for the progress of a block: attempts that succeed, find nothing, raise
\* (the N1 field is no number) or are skipped (T1_mean is zero).
LiveFamily == {WaferRow, SlotA, MeanGood, MeanBadN1, MeanZero, Sigma}

InitLive ==
    /\ \E g \in GridsOver(LiveFamily) : Loaded(g)
    /\ prev_df = <<>>
    /\ prev_results = <<>>

\* The body of the loop is a sequence of statements whose inner loops run over
\* finite lists: once a block is begun, each of its steps is taken in turn.
SpecLive ==
    /\ InitLive
    /\ [][Next]_vars
    /\ WF_vars(BeginBlock)
    /\ WF_vars(SlotStep)
    /\ WF_vars(MeanStep)
    /\ WF_vars(SigmaStep)
    /\ WF_vars(SiteStep)
    /\ WF_vars(AppendResult)

\* The two orders in which the attempts of one block can be made.
AttemptOrders ==
    {<<"SLOT", "MEAN", "Site">>, <<"SLOT", "MEAN", "3 SIGMA", "Site">>}

IsPrefix(s, t) == Len(s) <= Len(t) /\ SubSeq(t, 1, Len(s)) = s

\* The attempts made so far for the current block, by position of the loop body.
AttemptsInOrder ==
    /\ \E t \in AttemptOrders : IsPrefix(attempts, t)
    /\ pc = "slot" => attempts = <<>>
    /\ pc = "mean" => attempts = <<"SLOT">>
    /\ pc = "sigma" => attempts = <<"SLOT", "MEAN">>
    /\ pc = "site" => attempts \in {<<"SLOT", "MEAN">>, <<"SLOT", "MEAN", "3 SIGMA">>}
    /\ pc = "append" => attempts \in AttemptOrders
    /\ pc \in {"site", "append"} =>
          (("3 SIGMA" \in {attempts[k] : k \in 1..Len(attempts)})
              <=> (result.T1_mean # None /\ ~IsZero(result.T1_mean)))

\* C11: for every block the attempts are made once each in the order SLOT, MEAN,
\* 3 SIGMA, Site; the Site attempt is made whatever the SLOT and MEAN attempts
\* did (found nothing, raised), the 3 SIGMA attempt is made exactly when T1_mean
\* is neither None nor zero, and every block that is begun gets its record
\* appended to the results.
C11_AttemptsOnceInOrderAndComplete ==
    /\ []AttemptsInOrder
    /\ \A n \in 0..(MaxRows - 1) :
          (pc = "slot" /\ i = n) ~> (Len(results) = n + 1 /\ attempts \in AttemptOrders)

\* The second block is about to be appended: no SLOT row was found, the MEAN row
\* was found and its N1 field raised, the 3 SIGMA attempt was not made and the
\* Site attempt was.
C11_Witness ==
    /\ pc = "append"
    /\ i = 1
    /\ attempts = <<"SLOT", "MEAN", "Site">>
    /\ SlotRow(df, sections) = -1
    /\ MeanRow(df, sections) # -1
    /\ MeanValue(df, sections, EmptyResult).raised
    /\ result.T1_mean = None

\* ------------------------------------------------------------------ sections
\* The rows lo..hi-1 with four to six non-empty cells whose column 0 contains
\* the label.
NarrowRows(g, lo, hi, label) ==
    {r \in LabelledRows(g, lo, hi, label) : FilledCells(g, r) >= 4 /\ FilledCells(g, r) <= 6}

\* The rows lo..hi-1 with at least ten non-empty cells.
WideRows(g, lo, hi) == {r \in lo..(hi - 1) : FilledCells(g, r) >= 10}

\* v is the quotient of the numbers in the cells a and b.
IsRatioOf(v, a, b) ==
    /\ IsNumber(FloatOf(a))
    /\ IsNumber(FloatOf(b))
    /\ ~IsZero(FloatOf(b))
    /\ v = FloatDiv(FloatOf(a), FloatOf(b))

\* C12: in every record, a lot_id that is not None is the column-1 cell of a row
\* of the block with exactly two non-empty cells whose column 0 contains SLOT; an
\* N1_mean, T1_mean or T1_3sigma_mean that is not None was read from rows of the
\* block with four to six non-empty cells whose column 0 contains the marker;
\* an N1_XY_00 that is not None is the column-2 cell of a row with at least ten
\* non-empty cells after a Site row with at least ten non-empty cells.  A marker
\* row with another number of non-empty cells gives no value.
C12_ValuesComeFromTheirSections ==
    Returned =>
        LET rows == MarkerRows(df)
        IN  \A n \in 1..Len(results) :
            LET lo == StartOf(rows, n)
                hi == StopOf(rows, n, NRows(df))
                rec == results[n]
                means == NarrowRows(df, lo, hi, "MEAN")
            IN  /\ rec.lot_id # None =>
                      \E r \in TwoCellSlotRows(df, lo, hi) : rec.lot_id = Cell(df, r, 1)
                /\ rec.N1_mean # None =>
                      \E r \in means : rec.N1_mean = FloatOf(Cell(df, r, n1_col))
                /\ rec.T1_mean # None =>
                      \E r \in means : rec.T1_mean = FloatOf(Cell(df, r, t1_col))
                /\ rec.T1_3sigma_mean # None =>
                      \E r \in NarrowRows(df, lo, hi, "3 SIGMA"), q \in means :
                          IsRatioOf(rec.T1_3sigma_mean, Cell(df, r, t1_col), Cell(df, q, t1_col))
                /\ rec.N1_XY_00 # None =>
                      \E site \in WideRows(df, lo, hi) \cap LabelledRows(df, lo, hi, "SITE") :
                          \E r \in WideRows(df, site + 1, hi) :
                              rec.N1_XY_00 = Cell(df, r, n1_col)

\* A block whose Site row is followed by a row of nine non-empty cells with
\* X = 0 and Y = 0 and then by one of ten: N1_XY_00 is the N1 cell of the latter.
C12_Witness ==
    /\ Returned
    /\ Len(results) = 1
    /\ LET lo == MarkerRows(df)[1]
           hi == NRows(df)
           site == WideSiteRow(df, lo, hi)
       IN  /\ site # -1
           /\ \E short \in (site + 1)..(hi - 1), r \in WideRows(df, site + 1, hi) :
                 /\ short < r
                 /\ FilledCells(df, short) = 9
                 /\ ZeroCell(Cell(df, short, x_col))
                 /\ ZeroCell(Cell(df, short, y_col))
                 /\ Cell(df, short, n1_col) # Cell(df, r, n1_col)
                 /\ results[1].N1_XY_00 = Cell(df, r, n1_col)

====
